---- MODULE Spec2Model ----
(***************************************************************************)
(* Model of src/features/hyperlinks.rs (delta): the OSC 8 hyperlink        *)
(* formatters for commit lines and file paths.                             *)
(*                                                                         *)
(* A Rust string is a sequence of one-character strings; ESC stands for    *)
(* the byte 0x1b.  Option<T> is a sequence of length 0 (None) or 1 (Some). *)
(***************************************************************************)
EXTENDS Integers, Sequences, FiniteSets, TLC

\* ------------------------------------------------------------- bounds
\* A line is a concatenation of at most MaxPieces pieces of LinePieces.
MaxPieces == 2
\* Line numbers handed to the file formatter range over 0..MaxLineNumber.
MaxLineNumber == 42

\* ------------------------------------------------------- Option, Result
None == <<>>
Some(x) == <<x>>
IsSome(o) == Len(o) > 0
\* Option::unwrap: defined on Some only (on None the call panics, and the
\* model checker stops with an evaluation error)
unwrap(o) == o[1]
Ok(x) == [ok |-> TRUE, val |-> x]
Err == [ok |-> FALSE, val |-> "error"]

\* ------------------------------------------------------------- strings
ESC == "ESC"
\* osc = "\x1b]" and st = "\x1b\\" of the two format! calls
osc == <<ESC, "]">>
st == <<ESC, "\\">>
CommitPlaceholder == <<"{", "c", "o", "m", "m", "i", "t", "}">>
PathPlaceholder == <<"{", "p", "a", "t", "h", "}">>
LinePlaceholder == <<"{", "l", "i", "n", "e", "}">>
WorkdirKey == "delta.__workdir__"

\* A faulty variant: one hex digit fewer.
HashLen_short == 40 - 1

\* The number of hex digits the commit pattern asks for: [0-9a-f]{40}
HashLen == 40
HexDigits == {"0", "1", "2", "3", "4", "5", "6", "7", "8", "9",
              "a", "b", "c", "d", "e", "f"}
DecDigits == <<"0", "1", "2", "3", "4", "5", "6", "7", "8", "9">>

\* s[i..] starts with pat
StartsWithAt(s, i, pat) ==
    /\ i + Len(pat) - 1 <= Len(s)
    /\ \A k \in 1..Len(pat) : s[i + k - 1] = pat[k]

\* str::replace(from, to): every non-overlapping occurrence of the non-empty
\* pattern `from`, found left to right, is replaced by `to`.
RECURSIVE ReplaceFrom(_, _, _, _)
ReplaceFrom(s, i, from, to) ==
    IF i > Len(s) THEN <<>>
    ELSE IF StartsWithAt(s, i, from)
         THEN to \o ReplaceFrom(s, i + Len(from), from, to)
         ELSE <<s[i]>> \o ReplaceFrom(s, i + 1, from, to)

str_replace(s, from, to) == ReplaceFrom(s, 1, from, to)

\* format!("{}", n) of a usize: decimal digits, most significant first
RECURSIVE usize_to_string(_)
usize_to_string(n) ==
    IF n < 10 THEN <<DecDigits[n + 1]>>
    ELSE usize_to_string(n \div 10) \o <<DecDigits[(n % 10) + 1]>>

\* ------------------------------------------------------ the OSC8 encoder
format_osc8_hyperlink(url, text) ==
    osc \o <<"8", ";", ";">> \o url \o st \o text \o osc \o <<"8", ";", ";">> \o st

\* --------------------------------------------------- COMMIT_LINE_REGEX
\* "(.* )([0-9a-f]{40})(.*)", unanchored.  `.` matches any character but "\n".
HexRunAt(line, i) ==
    /\ i + HashLen - 1 <= Len(line)
    /\ \A k \in i..(i + HashLen - 1) : line[k] \in HexDigits

\* A faulty variant: the prefix may end in any blank.
PrefixEndAt_blank(line, p) == line[p] \in {" ", "\t"}

\* The last character of group 1, "(.* )", is a space.
PrefixEndAt(line, p) == line[p] = " "

SetMin(S) == CHOOSE x \in S : \A y \in S : x <= y
SetMax(S) == CHOOSE x \in S : \A y \in S : x >= y

\* The captures of the leftmost match, the greedy groups taking as much as
\* they can: None, or Some of the match's bounds and its three groups.
COMMIT_LINE_REGEX_captures(line) ==
    LET n == Len(line)
        nl == {k \in 1..n : line[k] = "\n"}
        \* the positions where " " followed by 40 hex digits can match
        cands == {p \in 1..n : PrefixEndAt(line, p) /\ HexRunAt(line, p + 1)}
        \* `.*` can run from s to just before p
        Dots(s, p) == \A k \in nl : k < s \/ k >= p
    IN  IF cands = {} THEN None
        ELSE LET s == SetMin({x \in 1..n : \E p \in cands : x <= p /\ Dots(x, p)})
                 p == SetMax({q \in cands : s <= q /\ Dots(s, q)})
                 h == p + 1
                 e == SetMax({j \in (h + HashLen - 1)..n : Dots(h + HashLen, j + 1)})
             IN  Some([start |-> s,
                       end |-> e,
                       groups |-> <<Some(SubSeq(line, s, p)),
                                    Some(SubSeq(line, h, h + HashLen - 1)),
                                    Some(SubSeq(line, h + HashLen, e))>>])

\* Captures::get(i)
captures_get(captures, i) == captures.groups[i]

\* Regex::replace with the replacement text already computed from the
\* captures: the text of the first match is replaced, the rest is kept.
Regex_replace(line, captures, rep) ==
    SubSeq(line, 1, captures.start - 1) \o rep \o SubSeq(line, captures.end + 1, Len(line))

\* ----------------------------------------------------- GitHub fallback
GitHubUrlPrefix == <<"h", "t", "t", "p", "s", ":", "/", "/",
                     "g", "i", "t", "h", "u", "b", ".", "c", "o", "m", "/">>

format_github_commit_url(commit, github_repo) ==
    GitHubUrlPrefix \o github_repo \o <<"/", "c", "o", "m", "m", "i", "t", "/">> \o commit

\* A faulty variant: the replacement is the hyperlink alone, as in the template branch.
format_commit_line_captures_hyperlink_only(captures, github_repo) ==
    LET commit == unwrap(captures_get(captures, 2))
    IN  osc \o <<"8", ";", ";">> \o format_github_commit_url(commit, github_repo)
          \o st \o commit \o osc \o <<"8", ";", ";">> \o st

format_commit_line_captures_with_osc8_commit_hyperlink(captures, github_repo) ==
    LET commit == unwrap(captures_get(captures, 2))
        prefix == unwrap(captures_get(captures, 1))
        suffix == unwrap(captures_get(captures, 3))
    IN  prefix \o osc \o <<"8", ";", ";">> \o format_github_commit_url(commit, github_repo)
          \o st \o commit \o osc \o <<"8", ";", ";">> \o st \o suffix

\* ------------------------------------------- git metadata (collaborators)
\* git2::Repository as get_remote_url uses it: find_remote(name) is Ok(remote)
\* or an error (the remote is absent, or the lookup itself fails); a remote
\* has an optional url.
find_remote(repo, name) ==
    IF repo.readable /\ name \in DOMAIN repo.remotes THEN Ok(repo.remotes[name]) ELSE Err

remote_url(remote) == remote.url

GitHubRepo(r) == [kind |-> "GitHubRepo", repo |-> r]
GitLabRepo(r) == [kind |-> "GitLabRepo", repo |-> r]
\* GitConfigEntry: the variant `tag` with its payload (the other field is unused)
GitRemote(r) == [tag |-> "GitRemote", remote |-> r, path |-> <<>>]
Path(p) == [tag |-> "Path", remote |-> GitLabRepo(<<>>), path |-> p]

DeltaRepo == <<"d", "a", "n", "d", "a", "v", "i", "s", "o", "n", "/", "d", "e", "l", "t", "a">>

\* GitRemoteRepo::from_str on the remote urls of RemoteUrls
GitRemoteRepo_from_str(url) ==
    CASE url = "https://github.com/dandavison/delta" -> Ok(GitHubRepo(DeltaRepo))
      [] url = "git@github.com:dandavison/delta.git" -> Ok(GitHubRepo(DeltaRepo))
      [] url = "https://gitlab.com/dandavison/delta" -> Ok(GitLabRepo(DeltaRepo))
      [] OTHER -> Err

get_remote_url(git_config) ==
    IF ~IsSome(git_config.repo) THEN None
    ELSE LET found == find_remote(unwrap(git_config.repo), "origin")
         IN  IF ~found.ok THEN None
             ELSE LET url == remote_url(found.val)
                  IN  IF ~IsSome(url) THEN None
                      ELSE LET parsed == GitRemoteRepo_from_str(unwrap(url))
                           IN  IF parsed.ok THEN Some(GitRemote(parsed.val)) ELSE None

\* config.git_config.as_ref().and_then(get_remote_url)
config_remote(config) ==
    IF IsSome(config.git_config) THEN get_remote_url(unwrap(config.git_config)) ELSE None

\* -------------------------------------------- the commit line formatter
\* A faulty variant: an empty template counts as none.
commit_link_format_nonempty(config) ==
    IF IsSome(config.hyperlinks_commit_link_format)
       /\ Len(unwrap(config.hyperlinks_commit_link_format)) > 0
    THEN config.hyperlinks_commit_link_format
    ELSE None

\* if let Some(commit_link_format) = &config.hyperlinks_commit_link_format
commit_link_format_of(config) == config.hyperlinks_commit_link_format

\* A faulty variant: any remote variant matches.
any_repo_of(entry) ==
    IF IsSome(entry) /\ unwrap(entry).tag = "GitRemote"
    THEN Some(unwrap(entry).remote.repo)
    ELSE None

\* if let Some(GitConfigEntry::GitRemote(GitRemoteRepo::GitHubRepo(repo))) = ..
github_repo_of(entry) ==
    IF /\ IsSome(entry)
       /\ unwrap(entry).tag = "GitRemote"
       /\ unwrap(entry).remote.kind = "GitHubRepo"
    THEN Some(unwrap(entry).remote.repo)
    ELSE None

format_commit_line_with_osc8_commit_hyperlink(line, config) ==
    IF IsSome(commit_link_format_of(config))
    THEN LET commit_link_format == unwrap(commit_link_format_of(config))
             found == COMMIT_LINE_REGEX_captures(line)
         IN  IF ~IsSome(found) THEN line
             ELSE LET commit == unwrap(captures_get(unwrap(found), 2))
                  IN  Regex_replace(line, unwrap(found),
                        format_osc8_hyperlink(
                          str_replace(commit_link_format, CommitPlaceholder, commit),
                          commit))
    ELSE LET github == github_repo_of(config_remote(config))
         IN  IF IsSome(github)
             THEN LET repo == unwrap(github)
                      found == COMMIT_LINE_REGEX_captures(line)
                  IN  IF ~IsSome(found) THEN line
                      ELSE Regex_replace(line, unwrap(found),
                             format_commit_line_captures_with_osc8_commit_hyperlink(
                               unwrap(found), repo))
             ELSE line

\* ---------------------------------------------- the file link formatter
\* Path::join: an absolute `rel` replaces the base; otherwise a separator is
\* added unless the base is empty or already ends with one.
\* A faulty variant: the separator is always added.
path_join_always_separator(base, rel) == base \o <<"/">> \o rel

path_join(base, rel) ==
    IF Len(rel) > 0 /\ rel[1] = "/" THEN rel
    ELSE IF Len(base) = 0 \/ base[Len(base)] = "/" THEN base \o rel
    ELSE base \o <<"/">> \o rel

\* HashMap::get
entries_get(entries, key) ==
    IF key \in DOMAIN entries THEN Some(entries[key]) ELSE None

\* A faulty variant: any entry variant matches.
any_workdir_of(entry) ==
    IF IsSome(entry) THEN Some(unwrap(entry).path) ELSE None

\* if let Some(GitConfigEntry::Path(workdir)) = ..
workdir_of(entry) ==
    IF IsSome(entry) /\ unwrap(entry).tag = "Path" THEN Some(unwrap(entry).path) ELSE None

format_osc8_file_hyperlink(relative_path, line_number, text, config) ==
    LET found == workdir_of(entries_get(config.git_config_entries, WorkdirKey))
    IN  IF IsSome(found)
        THEN LET workdir == unwrap(found)
                 absolute_path == path_join(workdir, relative_path)
                 url1 == str_replace(config.hyperlinks_file_link_format,
                                     PathPlaceholder, absolute_path)
                 url2 == IF IsSome(line_number)
                         THEN str_replace(url1, LinePlaceholder,
                                          usize_to_string(unwrap(line_number)))
                         ELSE str_replace(url1, LinePlaceholder, <<>>)
             IN  format_osc8_hyperlink(url2, text)
        ELSE relative_path

\* ------------------------------------------------------------- inputs
\* The hash of the test, a second hash, and a hex run one digit short.
H1 == <<"3", "4", "2", "0", "1", "6", "d", "0", "a", "6", "9", "d", "8", "3", "6", "1",
        "d", "c", "1", "7", "3", "9", "6", "d", "9", "a", "4", "4", "1", "7", "0", "4",
        "4", "1", "6", "e", "b", "7", "b", "b">>
HexSeq == <<"0", "1", "2", "3", "4", "5", "6", "7", "8", "9", "a", "b", "c", "d", "e", "f">>
H2 == [i \in 1..40 |-> HexSeq[((i * 7) % 16) + 1]]
ShortHex == SubSeq(H2, 1, 39)
CommitWord == <<"c", "o", "m", "m", "i", "t", " ">>

\* Separators, a hex digit, the word git log puts before a hash, the hashes
\* (the second one also after a space) and the short run.
LinePieces ==
    {<<" ">>, <<"\t">>, <<"\n">>, <<"a">>, CommitWord, H1, H2, <<" ">> \o H2, ShortHex}

RECURSIVE LinesUpTo(_)
LinesUpTo(k) ==
    IF k = 0 THEN {<<>>}
    ELSE LET shorter == LinesUpTo(k - 1)
         IN  shorter \cup {p \o l : p \in LinePieces, l \in shorter}

Lines == LinesUpTo(MaxPieces)

\* Values of Config::hyperlinks_commit_link_format
TemplateX == <<"h", "t", "t", "p", ":", "/", "/", "x", "/",
               "{", "c", "o", "m", "m", "i", "t", "}">>
CommitLinkFormats == {None, Some(<<>>), Some(TemplateX)}

\* Values of Config::git_config.  A GitConfig holds the parsed git config
\* file and an optional repository.
NoConfigFile == [origin_url |-> None, insteadOf |-> {}]
Repository(readable, remotes) == [readable |-> readable, remotes |-> remotes]
NoRemotes == [n \in {} |-> [url |-> None]]
Origin(url) == "origin" :> [url |-> url]
RemoteUrls == {"https://github.com/dandavison/delta",
               "https://gitlab.com/dandavison/delta",
               "not a remote url"}
Repositories ==
    {Repository(FALSE, Origin(None)), Repository(TRUE, NoRemotes),
     Repository(TRUE, Origin(None))}
      \cup {Repository(TRUE, Origin(Some(u))) : u \in RemoteUrls}
GitConfigs ==
    {None, Some([config |-> NoConfigFile, repo |-> None])}
      \cup {Some([config |-> NoConfigFile, repo |-> Some(r)]) : r \in Repositories}

\* The configuration of test_commit_hyperlink_honors_insteadof:
\* make_config_from_args_and_git_config(&[], Some(git_config_contents), ..)
\* builds a GitConfig from the file contents, with a null Repository.
TestGitConfigFile ==
    [origin_url |-> Some("github:dandavison/delta"),
     insteadOf |-> {<<"github:", "https://github.com/">>,
                    <<"githubpriv:", "ssh://git@github.com/">>}]
TestGitConfig == [config |-> TestGitConfigFile, repo |-> None]

\* Values of Config::hyperlinks_file_link_format
FileLinkFormats ==
    {<<"f", "i", "l", "e", ":", "/", "/", "{", "p", "a", "t", "h", "}">>,
     <<"f", "i", "l", "e", ":", "/", "/", "{", "p", "a", "t", "h", "}", "#",
       "{", "l", "i", "n", "e", "}">>,
     <<"{", "l", "i", "n", "e", "}", ":", "{", "p", "a", "t", "h", "}", ":",
       "{", "l", "i", "n", "e", "}">>}
PlainFileLinkFormat == <<"f", "i", "l", "e", ":", "/", "/", "{", "p", "a", "t", "h", "}">>

\* Values of Config::git_config_entries
NoEntries == [k \in {} |-> Path(<<>>)]
Repo == <<"/", "r", "e", "p", "o">>
EntryMaps ==
    {NoEntries,
     WorkdirKey :> Path(Repo),
     WorkdirKey :> Path(Repo \o <<"/">>),
     WorkdirKey :> GitRemote(GitHubRepo(DeltaRepo)),
     "remote.origin.url" :> Path(Repo)}

MakeConfig(commit_link_format, git_config, file_link_format, entries) ==
    [hyperlinks_commit_link_format |-> commit_link_format,
     git_config |-> git_config,
     hyperlinks_file_link_format |-> file_link_format,
     git_config_entries |-> entries]

TestConfig == MakeConfig(None, Some(TestGitConfig), PlainFileLinkFormat, NoEntries)

\* The commit formatter reads the first two fields only and the file
\* formatter the last two: each pair is varied with the other held fixed.
Configs ==
    {MakeConfig(c, g, PlainFileLinkFormat, NoEntries) :
        c \in CommitLinkFormats, g \in GitConfigs}
      \cup {MakeConfig(None, None, f, e) : f \in FileLinkFormats, e \in EntryMaps}
      \cup {TestConfig}

RelativePaths == {<<>>, <<"a", ".", "t", "x", "t">>,
                  <<"s", "r", "c", "/", "a", ".", "r", "s">>,
                  <<"/", "e", "t", "c", "/", "h", "o", "s", "t", "s">>}
Texts == {<<"a", ".", "t", "x", "t">>, <<"l", "i", "n", "k">>}
LineNumbers == {None} \cup {Some(n) : n \in 0..MaxLineNumber}

\* -------------------------------------------------------------- state
VARIABLES
    config,         \* the Config both formatters read
    call,           \* the formatter called last: "none", "commit" or "file"
    line,           \* format_commit_line_with_osc8_commit_hyperlink's line
    relative_path,  \* format_osc8_file_hyperlink's arguments
    line_number,
    text,
    out             \* the string the last call returned

vars == <<config, call, line, relative_path, line_number, text, out>>

Init ==
    /\ config \in Configs
    /\ call = "none"
    /\ line = <<>>
    /\ relative_path = <<>>
    /\ line_number = None
    /\ text = <<>>
    /\ out = <<>>

\* A behaviour is one call of a formatter on a constructed Config: the
\* formatters are pure and leave the Config alone, so a second call would
\* see the state the first one saw.
FormatCommitLine ==
    \E l \in Lines :
        /\ call = "none"
        /\ call' = "commit"
        /\ line' = l
        /\ out' = format_commit_line_with_osc8_commit_hyperlink(l, config)
        /\ relative_path' = <<>>
        /\ line_number' = None
        /\ text' = <<>>
        /\ UNCHANGED config

FormatFileHyperlink ==
    \E p \in RelativePaths, n \in LineNumbers, t \in Texts :
        /\ call = "none"
        /\ call' = "file"
        /\ relative_path' = p
        /\ line_number' = n
        /\ text' = t
        /\ out' = format_osc8_file_hyperlink(p, n, t, config)
        /\ line' = <<>>
        /\ UNCHANGED config

Next == FormatCommitLine \/ FormatFileHyperlink

Spec == Init /\ [][Next]_vars

\* ------------------------------------------------------------ claims
\* What the claims speak of, written out independently of the formatters.

\* OSC8(url, text) = ESC ']' '8;;' url ESC '\' text ESC ']' '8;;' ESC '\'
Claim_OSC8(url, shown) ==
    <<ESC, "]", "8", ";", ";">> \o url \o <<ESC, "\\">> \o shown
      \o <<ESC, "]", "8", ";", ";", ESC, "\\">>

Claim_Contains(s, sub) ==
    \E i \in 1..(Len(s) - Len(sub) + 1) : \A k \in 1..Len(sub) : s[i + k - 1] = sub[k]

\* 40 consecutive characters of [0-9a-f] start at position i of l
Claim_TokenAt(l, i) ==
    /\ i >= 1
    /\ i + 39 <= Len(l)
    /\ \A k \in i..(i + 39) :
         l[k] \in {"0", "1", "2", "3", "4", "5", "6", "7", "8", "9",
                   "a", "b", "c", "d", "e", "f"}

Claim_HasToken(l) == \E i \in 1..Len(l) : Claim_TokenAt(l, i)

\* A hyperlink was emitted: the lines of the model hold no ESC of their own.
Claim_HasHyperlink(s) == Claim_Contains(s, <<ESC, "]", "8", ";", ";">>)

Claim_HasTemplate == IsSome(config.hyperlinks_commit_link_format)

\* The GitHub Remote Resolver succeeds on the configuration ...
Claim_GitHubRemote ==
    LET e == config_remote(config)
    IN  IsSome(e) /\ unwrap(e).tag = "GitRemote" /\ unwrap(e).remote.kind = "GitHubRepo"

\* ... or fails on one of its paths.
Claim_ResolverFails ==
    \/ ~IsSome(config.git_config)
    \/ ~IsSome(unwrap(config.git_config).repo)
    \/ LET repo == unwrap(unwrap(config.git_config).repo)
       IN  \/ ~repo.readable
           \/ "origin" \notin DOMAIN repo.remotes
           \/ ~IsSome(repo.remotes["origin"].url)
           \/ unwrap(repo.remotes["origin"].url)
                \notin {"https://github.com/dandavison/delta",
                        "git@github.com:dandavison/delta.git"}

\* The match of the commit pattern in the line of the last call, and the
\* text of the line before and after the matched token.
Claim_Match == COMMIT_LINE_REGEX_captures(line)
Claim_Token == unwrap(unwrap(Claim_Match).groups[2])
Claim_TokenStart == unwrap(Claim_Match).start + Len(unwrap(unwrap(Claim_Match).groups[1]))
Claim_BeforeToken == SubSeq(line, 1, Claim_TokenStart - 1)
Claim_AfterToken == SubSeq(line, Claim_TokenStart + 40, Len(line))

\* The template with {commit} replaced by H, for the templates of the model
Claim_TemplateUrl(T, H) ==
    IF T = TemplateX THEN <<"h", "t", "t", "p", ":", "/", "/", "x", "/">> \o H ELSE T

Claim_GitHubUrl(R, H) ==
    <<"h", "t", "t", "p", "s", ":", "/", "/", "g", "i", "t", "h", "u", "b", ".", "c", "o", "m", "/">>
      \o R \o <<"/", "c", "o", "m", "m", "i", "t", "/">> \o H

Claim_CommitLine == <<"c", "o", "m", "m", "i", "t", " ">> \o H1

\* C1 (as claimed): with a template T configured, a line prefix + H + suffix
\* matched by the commit pattern comes back as prefix + OSC8(T with {commit}
\* replaced by H, H) + suffix.
C1_TemplateKeepsPrefixAndSuffix ==
    (call = "commit" /\ Claim_HasTemplate /\ IsSome(Claim_Match))
        => out = Claim_BeforeToken
                   \o Claim_OSC8(Claim_TemplateUrl(unwrap(config.hyperlinks_commit_link_format),
                                                   Claim_Token),
                                 Claim_Token)
                   \o Claim_AfterToken

\* C2: with no template and the origin remote resolved to GitHub repository
\* R, a line prefix + H + suffix matched by the commit pattern comes back as
\* prefix + OSC8("https://github.com/" R "/commit/" H, H) + suffix.
C2_GitHubFallbackWrapsToken ==
    (call = "commit" /\ ~Claim_HasTemplate /\ Claim_GitHubRemote /\ IsSome(Claim_Match))
        => out = Claim_BeforeToken
                   \o Claim_OSC8(Claim_GitHubUrl(DeltaRepo, Claim_Token), Claim_Token)
                   \o Claim_AfterToken

C2_Witness ==
    /\ call = "commit"
    /\ ~Claim_HasTemplate
    /\ Claim_GitHubRemote
    /\ line = Claim_CommitLine
    /\ out = <<"c", "o", "m", "m", "i", "t", " ">>
               \o Claim_OSC8(Claim_GitHubUrl(DeltaRepo, H1), H1)

\* C3 (as the test asserts): on the configuration the test builds from the
\* git config contents alone, "commit <H>" comes back containing
\* "https://github.com/dandavison/delta/commit/<H>".
C3_TestOutputContainsGitHubUrl ==
    (call = "commit" /\ config = TestConfig /\ line = Claim_CommitLine)
        => Claim_Contains(out, Claim_GitHubUrl(DeltaRepo, H1))

\* C4 (as claimed): on a line "H1 H2", with a template or with a GitHub
\* remote, only H2 is wrapped and H1 stays as literal text where it was.
C4_FirstTokenStaysLiteral ==
    (/\ call = "commit"
     /\ Claim_HasTemplate \/ Claim_GitHubRemote
     /\ line = H1 \o <<" ">> \o H2)
        => /\ SubSeq(out, 1, 41) = H1 \o <<" ">>
           /\ SubSeq(out, 42, 46) = <<ESC, "]", "8", ";", ";">>
           /\ SubSeq(out, Len(out) - 46, Len(out))
                = H2 \o <<ESC, "]", "8", ";", ";", ESC, "\\">>

Claim_Workdir == config.git_config_entries[WorkdirKey].path

\* The working directory joined with the relative path: the directory, one
\* separator, the path; an absolute path stands for itself.
Claim_AbsolutePath ==
    LET w == Claim_Workdir
        dir == IF Len(w) > 0 /\ w[Len(w)] = "/" THEN SubSeq(w, 1, Len(w) - 1) ELSE w
    IN  IF Len(relative_path) > 0 /\ relative_path[1] = "/" THEN relative_path
        ELSE dir \o <<"/">> \o relative_path

\* The decimal form of a number below 1000
Claim_Digit(d) ==
    CASE d = 0 -> "0" [] d = 1 -> "1" [] d = 2 -> "2" [] d = 3 -> "3" [] d = 4 -> "4"
      [] d = 5 -> "5" [] d = 6 -> "6" [] d = 7 -> "7" [] d = 8 -> "8" [] d = 9 -> "9"
Claim_Decimal(n) ==
    IF n < 10 THEN <<Claim_Digit(n)>>
    ELSE IF n < 100 THEN <<Claim_Digit(n \div 10), Claim_Digit(n % 10)>>
    ELSE <<Claim_Digit(n \div 100), Claim_Digit((n \div 10) % 10), Claim_Digit(n % 10)>>

Claim_LineText == IF IsSome(line_number) THEN Claim_Decimal(unwrap(line_number)) ELSE <<>>

Claim_FileUrl ==
    LET T == config.hyperlinks_file_link_format
    IN  CASE T = <<"f", "i", "l", "e", ":", "/", "/", "{", "p", "a", "t", "h", "}">>
               -> <<"f", "i", "l", "e", ":", "/", "/">> \o Claim_AbsolutePath
          [] T = <<"f", "i", "l", "e", ":", "/", "/", "{", "p", "a", "t", "h", "}", "#",
                   "{", "l", "i", "n", "e", "}">>
               -> <<"f", "i", "l", "e", ":", "/", "/">> \o Claim_AbsolutePath
                    \o <<"#">> \o Claim_LineText
          [] T = <<"{", "l", "i", "n", "e", "}", ":", "{", "p", "a", "t", "h", "}", ":",
                   "{", "l", "i", "n", "e", "}">>
               -> Claim_LineText \o <<":">> \o Claim_AbsolutePath \o <<":">> \o Claim_LineText

Claim_HasWorkdir ==
    /\ WorkdirKey \in DOMAIN config.git_config_entries
    /\ config.git_config_entries[WorkdirKey].tag = "Path"

\* C6: with a path-valued working directory entry W, the file formatter
\* returns OSC8(url, display text), url being the template with {path}
\* replaced by W joined with the relative path and {line} by the decimal line
\* number, or by nothing when there is none.
C6_FileHyperlinkUrl ==
    (call = "file" /\ Claim_HasWorkdir) => out = Claim_OSC8(Claim_FileUrl, text)

C6_Witness ==
    /\ call = "file"
    /\ Claim_HasWorkdir
    /\ Claim_Workdir = <<"/", "r", "e", "p", "o">>
    /\ relative_path = <<"a", ".", "t", "x", "t">>
    /\ line_number = Some(42)
    /\ out = Claim_OSC8(<<"f", "i", "l", "e", ":", "/", "/", "/", "r", "e", "p", "o", "/",
                          "a", ".", "t", "x", "t", "#", "4", "2">>, text)

\* C7: without a working directory entry, or with one that is no path, the
\* file formatter returns the relative path as it was given.
C7_NoWorkdirReturnsPath ==
    (call = "file" /\ ~Claim_HasWorkdir) => out = relative_path

C7_Witness ==
    /\ call = "file"
    /\ WorkdirKey \in DOMAIN config.git_config_entries
    /\ config.git_config_entries[WorkdirKey].tag = "GitRemote"
    /\ relative_path = <<"a", ".", "t", "x", "t">>
    /\ line_number = Some(42)
    /\ out = relative_path

\* C8: a line with no run of 40 hex digits comes back as it was given,
\* whatever the configuration.
C8_NoTokenUnchanged ==
    (call = "commit" /\ ~Claim_HasToken(line)) => out = line

C8_Witness ==
    /\ call = "commit"
    /\ Claim_HasTemplate
    /\ Len(unwrap(config.hyperlinks_commit_link_format)) > 0
    /\ line = <<" ">> \o ShortHex
    /\ out = line

\* C9 (as claimed): an empty template counts as no template: the formatter
\* returns what it returns with no template configured.
C9_EmptyTemplateIsNoTemplate ==
    (call = "commit" /\ config.hyperlinks_commit_link_format = Some(<<>>))
        => out = format_commit_line_with_osc8_commit_hyperlink(
                   line, [config EXCEPT !.hyperlinks_commit_link_format = None])

\* C9 (amended): an empty template is a template: a line the commit pattern
\* matches comes back with its token wrapped in a hyperlink whose url is
\* empty, and without the GitHub url even when the remote resolves; a line
\* it does not match comes back as it was given.
C9_EmptyTemplateIsATemplate ==
    (call = "commit" /\ config.hyperlinks_commit_link_format = Some(<<>>))
        => IF IsSome(Claim_Match)
           THEN /\ Claim_Contains(out, Claim_OSC8(<<>>, Claim_Token))
                /\ ~Claim_Contains(out, <<"g", "i", "t", "h", "u", "b">>)
           ELSE out = line

C9_Witness ==
    /\ call = "commit"
    /\ config.hyperlinks_commit_link_format = Some(<<>>)
    /\ Claim_GitHubRemote
    /\ line = Claim_CommitLine
    /\ Claim_Contains(out, Claim_OSC8(<<>>, H1))

\* C10 (as claimed): with a template or a GitHub remote, every line holding
\* a run of 40 hex digits comes back with a hyperlink, whatever precedes the
\* run.
C10_EveryTokenLinked ==
    (call = "commit" /\ (Claim_HasTemplate \/ Claim_GitHubRemote) /\ Claim_HasToken(line))
        => Claim_HasHyperlink(out)

\* C10 (amended): with a template or a GitHub remote, a line comes back with
\* a hyperlink exactly when a space stands right before a run of 40 hex
\* digits; any other line, a run at the start of the line or after another
\* character included, comes back as it was given.
C10_TokenAfterSpaceLinked ==
    (call = "commit" /\ (Claim_HasTemplate \/ Claim_GitHubRemote))
        => LET spaced == \E i \in 1..Len(line) : line[i] = " " /\ Claim_TokenAt(line, i + 1)
           IN  /\ Claim_HasHyperlink(out) <=> spaced
               /\ ~spaced => out = line

C10_Witness ==
    /\ call = "commit"
    /\ Claim_HasTemplate
    /\ line = <<"\t">> \o H1
    /\ out = line

====
